---------------------------- MODULE Spec2Model ----------------------------
(***************************************************************************)
(* A model of HarPromter (src/main.py): the HAR -> minimized JSON/YAML     *)
(* batch transform.                                                        *)
(*                                                                         *)
(* Python values are modelled as follows.                                  *)
(*   - a dict is a TLA+ function whose domain is its set of keys; a dict   *)
(*     whose insertion order matters (filtered_entries, sorted_entries) is *)
(*     a sequence of [key, value] records in insertion order;              *)
(*   - a list is a sequence;                                               *)
(*   - a header / cookie name or value is an atomic string;                *)
(*   - a single-key dict {name: value} is the record [name, value]; an     *)
(*     integer reference put in its place is the record [ref];             *)
(*   - a body text handed to decode_data is Null, or Str(s) with s the     *)
(*     sequence of its code points; a multipart body is a sequence of      *)
(*     lexical tokens (see parse_multipart);                               *)
(*   - a URL is a sequence of one-character strings;                       *)
(*   - a call either returns, [ok |-> TRUE, val |-> v], or raises,         *)
(*     [ok |-> FALSE, exc |-> "KeyError"].                                 *)
(***************************************************************************)
EXTENDS Integers, Sequences, FiniteSets, TLC

VARIABLES
    har,              \* the input: the HAR file and the command line
    pc,               \* position of main()
    exc,              \* the exception that ended the run, "" when none did
    entries,          \* process_har_file: har_data['log']['entries']
    filtered_entries, \* process_har_file: filter_entries' result (mutated in place by the substitution)
    header_dict,      \* process_har_file: the header table
    cookie_dict,      \* process_har_file: the cookie table
    data,             \* process_har_file's return value
    http_str,         \* main: the list of requests of the prompt
    stdout,           \* what has been printed, in order
    out_file,         \* the output file: "absent", or its content once written
    trace,            \* the steps completed so far, in order
    fin,              \* input of the pure-function specifications
    fout              \* result of the pure-function specifications

vars == <<har, pc, exc, entries, filtered_entries, header_dict, cookie_dict, data,
          http_str, stdout, out_file, trace, fin, fout>>

(***************************************************************************)
(* Bounds of the model.                                                    *)
(***************************************************************************)
MaxEntries == 2
MaxText == 4
MaxTokens == 5

(***************************************************************************)
(* Generic helpers.                                                        *)
(***************************************************************************)
Ok(v) == [ok |-> TRUE, val |-> v]
Raise(e) == [ok |-> FALSE, exc |-> e]

Null == [t |-> "null"]
Str(s) == [t |-> "str", s |-> s]

RECURSIVE SeqsUpTo(_, _)
SeqsUpTo(S, n) ==
    IF n = 0 THEN {<<>>}
    ELSE LET shorter == SeqsUpTo(S, n - 1)
         IN  shorter \cup {Append(s, x) : s \in {t \in shorter : Len(t) = n - 1}, x \in S}

\* s.endswith(suffix)
EndsWith(s, suffix) ==
    /\ Len(suffix) <= Len(s)
    /\ SubSeq(s, Len(s) - Len(suffix) + 1, Len(s)) = suffix

\* index of the first occurrence of x in s at or after i, 0 when there is none
RECURSIVE Find(_, _, _)
Find(s, x, i) ==
    IF i > Len(s) THEN 0
    ELSE IF s[i] = x THEN i
    ELSE Find(s, x, i + 1)

\* a dict comprehension dropping keys: {k: v for k, v in d.items() if k not in keys}
Without(d, keys) == [k \in DOMAIN d \ keys |-> d[k]]

\* d[key] = v on a dict
Put(d, key, v) == [k \in DOMAIN d \cup {key} |-> IF k = key THEN v ELSE d[k]]

\* d.get(key, default)
Get(d, key, default) == IF key \in DOMAIN d THEN d[key] ELSE default

(***************************************************************************)
(* decode_data, lines 168-172, with base64.b64decode, bytes.decode and     *)
(* urllib.parse.unquote as the standard library computes them.             *)
(***************************************************************************)
\* binascii's table_a2b_base64: the 6-bit value of a character, 64 for a
\* character outside the alphabet
B64Val(c) ==
    IF c \in 65..90 THEN c - 65
    ELSE IF c \in 97..122 THEN c - 71
    ELSE IF c \in 48..57 THEN c + 4
    ELSE IF c = 43 THEN 62
    ELSE IF c = 47 THEN 63
    ELSE 64

\* binascii.a2b_base64 in its default non-strict mode: characters outside the
\* alphabet are skipped, a pad sequence completing a quad ends the parse, and
\* an incomplete quad at the end is binascii.Error
RECURSIVE A2bBase64(_, _, _, _, _, _)
A2bBase64(s, i, quad_pos, leftchar, pads, bin) ==
    IF i > Len(s)
    THEN IF quad_pos # 0 THEN Raise("binascii.Error") ELSE Ok(bin)
    ELSE LET c == s[i]
             v == B64Val(c)
         IN  IF c = 61   \* '=', the pad character
             THEN IF quad_pos >= 2 /\ quad_pos + pads + 1 >= 4
                  THEN Ok(bin)
                  ELSE A2bBase64(s, i + 1, quad_pos, leftchar,
                                 IF quad_pos >= 2 THEN pads + 1 ELSE pads, bin)
             ELSE IF v >= 64
             THEN A2bBase64(s, i + 1, quad_pos, leftchar, pads, bin)
             ELSE CASE quad_pos = 0 ->
                         A2bBase64(s, i + 1, 1, v, 0, bin)
                    [] quad_pos = 1 ->
                         A2bBase64(s, i + 1, 2, v % 16, 0,
                                   Append(bin, leftchar * 4 + v \div 16))
                    [] quad_pos = 2 ->
                         A2bBase64(s, i + 1, 3, v % 4, 0,
                                   Append(bin, leftchar * 16 + v \div 4))
                    [] OTHER ->
                         A2bBase64(s, i + 1, 0, 0, 0,
                                   Append(bin, leftchar * 64 + v))

\* base64.b64decode(s) of a str: _bytes_from_decode_data raises ValueError for
\* a non-ASCII str, then binascii.a2b_base64
B64Decode(s) ==
    IF \E i \in 1..Len(s) : s[i] > 127
    THEN Raise("ValueError")
    ELSE A2bBase64(s, 1, 0, 0, 0, <<>>)

IsCont(b) == b \in 128..191

\* the number of bytes of the well-formed UTF-8 sequence starting at b[i],
\* 0 when none starts there
Utf8SeqLen(b, i) ==
    LET n == Len(b)
        b0 == b[i]
        b1 == IF i + 1 <= n THEN b[i + 1] ELSE -1
        b2 == IF i + 2 <= n THEN b[i + 2] ELSE -1
        b3 == IF i + 3 <= n THEN b[i + 3] ELSE -1
    IN  IF b0 <= 127 THEN 1
        ELSE IF b0 \in 194..223 THEN (IF IsCont(b1) THEN 2 ELSE 0)
        ELSE IF b0 = 224 THEN (IF b1 \in 160..191 /\ IsCont(b2) THEN 3 ELSE 0)
        ELSE IF b0 = 237 THEN (IF b1 \in 128..159 /\ IsCont(b2) THEN 3 ELSE 0)
        ELSE IF b0 \in 225..239 THEN (IF IsCont(b1) /\ IsCont(b2) THEN 3 ELSE 0)
        ELSE IF b0 = 240
             THEN (IF b1 \in 144..191 /\ IsCont(b2) /\ IsCont(b3) THEN 4 ELSE 0)
        ELSE IF b0 \in 241..243
             THEN (IF IsCont(b1) /\ IsCont(b2) /\ IsCont(b3) THEN 4 ELSE 0)
        ELSE IF b0 = 244
             THEN (IF b1 \in 128..143 /\ IsCont(b2) /\ IsCont(b3) THEN 4 ELSE 0)
        ELSE 0

\* the code point of the well-formed sequence of k bytes at b[i]
Utf8CodePoint(b, i, k) ==
    CASE k = 1 -> b[i]
      [] k = 2 -> (b[i] - 192) * 64 + (b[i + 1] - 128)
      [] k = 3 -> (b[i] - 224) * 4096 + (b[i + 1] - 128) * 64 + (b[i + 2] - 128)
      [] OTHER -> (b[i] - 240) * 262144 + (b[i + 1] - 128) * 4096
                    + (b[i + 2] - 128) * 64 + (b[i + 3] - 128)

\* the number of bytes errors='replace' replaces by one U+FFFD at an
\* ill-formed position: the lead byte and the continuation bytes that were
\* still acceptable after it
Utf8BadLen(b, i) ==
    LET n == Len(b)
        b0 == b[i]
        b1 == IF i + 1 <= n THEN b[i + 1] ELSE -1
        b2 == IF i + 2 <= n THEN b[i + 2] ELSE -1
        ok1 == CASE b0 \in 194..223 -> FALSE
                 [] b0 = 224 -> b1 \in 160..191
                 [] b0 = 237 -> b1 \in 128..159
                 [] b0 \in 225..239 -> IsCont(b1)
                 [] b0 = 240 -> b1 \in 144..191
                 [] b0 \in 241..243 -> IsCont(b1)
                 [] b0 = 244 -> b1 \in 128..143
                 [] OTHER -> FALSE
    IN  IF ~ok1 THEN 1
        ELSE IF b0 >= 240 /\ IsCont(b2) THEN 3
        ELSE 2

\* bytes.decode('utf-8', errors): strict raises UnicodeDecodeError at the
\* first ill-formed sequence, replace puts U+FFFD there and goes on
RECURSIVE Utf8Decode(_, _, _, _)
Utf8Decode(b, i, strict, acc) ==
    IF i > Len(b) THEN Ok(acc)
    ELSE LET k == Utf8SeqLen(b, i)
         IN  IF k > 0
             THEN Utf8Decode(b, i + k, strict, Append(acc, Utf8CodePoint(b, i, k)))
             ELSE IF strict THEN Raise("UnicodeDecodeError")
             ELSE Utf8Decode(b, i + Utf8BadLen(b, i), strict, Append(acc, 65533))   \* U+FFFD

\* the value of a hexadecimal digit, -1 for any other character
HexVal(c) ==
    IF c \in 48..57 THEN c - 48
    ELSE IF c \in 65..70 THEN c - 55
    ELSE IF c \in 97..102 THEN c - 87
    ELSE -1

IsEscape(s, i) ==
    /\ i + 2 <= Len(s)
    /\ s[i] = 37   \* '%'
    /\ HexVal(s[i + 1]) >= 0
    /\ HexVal(s[i + 2]) >= 0

\* urllib.parse.unquote_to_bytes on an ASCII run: every %XX becomes the byte XX
RECURSIVE UnquoteToBytes(_, _, _)
UnquoteToBytes(s, i, acc) ==
    IF i > Len(s) THEN acc
    ELSE IF IsEscape(s, i)
    THEN UnquoteToBytes(s, i + 3, Append(acc, HexVal(s[i + 1]) * 16 + HexVal(s[i + 2])))
    ELSE UnquoteToBytes(s, i + 1, Append(acc, s[i]))

\* the end of the maximal run of ASCII characters of s starting at i
RECURSIVE AsciiRunEnd(_, _)
AsciiRunEnd(s, i) ==
    IF i > Len(s) \/ s[i] > 127 THEN i - 1 ELSE AsciiRunEnd(s, i + 1)

\* urllib.parse.unquote(string): each maximal ASCII run is unquoted to bytes
\* and decoded as UTF-8 with errors='replace'; other characters are kept
RECURSIVE UnquoteFrom(_, _, _)
UnquoteFrom(s, i, acc) ==
    IF i > Len(s) THEN acc
    ELSE IF s[i] > 127 THEN UnquoteFrom(s, i + 1, Append(acc, s[i]))
    ELSE LET e == AsciiRunEnd(s, i)
             bytes == UnquoteToBytes(SubSeq(s, i, e), 1, <<>>)
         IN  UnquoteFrom(s, e + 1, acc \o Utf8Decode(bytes, 1, FALSE, <<>>).val)

unquote(s) == UnquoteFrom(s, 1, <<>>)

\* decode_data(data), lines 168-172: base64 then UTF-8; binascii.Error,
\* UnicodeDecodeError and ValueError fall back to unquote(data); the TypeError
\* b64decode raises for a value that is no str (JSON null) is not caught
decode_data(d) ==
    IF d.t # "str" THEN Raise("TypeError")
    ELSE LET raw == B64Decode(d.s)
             txt == IF raw.ok THEN Utf8Decode(raw.val, 1, TRUE, <<>>) ELSE raw
         IN  IF txt.ok THEN Ok(Str(txt.val)) ELSE Ok(Str(unquote(d.s)))


(***************************************************************************)
(* remove_query_params, lines 23-26.  urlparse cuts the fragment at the    *)
(* first '#', then the query at the first '?' of what precedes it;         *)
(* urlunparse puts the pieces back, leaving out an empty query and an      *)
(* empty fragment.                                                         *)
(***************************************************************************)
remove_query_params(url) ==
    LET h == Find(url, "#", 1)
        base == IF h = 0 THEN url ELSE SubSeq(url, 1, h - 1)
        fragment == IF h = 0 THEN <<>> ELSE SubSeq(url, h + 1, Len(url))
        q == Find(base, "?", 1)
        path == IF q = 0 THEN base ELSE SubSeq(base, 1, q - 1)
    IN  IF fragment = <<>> THEN path ELSE path \o <<"#">> \o fragment

\* static_values, line 57
static_values ==
    << <<".", "c", "s", "s">>, <<".", "j", "s">>, <<".", "p", "n", "g">>,
       <<".", "s", "v", "g">>, <<".", "j", "p", "g">>, <<".", "j", "p", "e", "g">>,
       <<".", "g", "i", "f">>, <<".", "w", "o", "f", "f">>,
       <<".", "w", "o", "f", "f", "2">>, <<".", "t", "t", "f">> >>

\* lines 64-65: any(clean_url.endswith(ext) for ext in static_values)
IsStatic(url) ==
    LET clean_url == remove_query_params(url)
    IN  \E i \in 1..Len(static_values) : EndsWith(clean_url, static_values[i])

(***************************************************************************)
(* parse_multipart, lines 29-46.  A multipart body is a sequence of        *)
(* tokens, each standing for a piece of text no separator cuts through:    *)
(* "--" \o boundary (the delimiter), "\r\n", "; name=\"", "\"", "--", and  *)
(* words such as "f1" or "v" for any other text.                           *)
(***************************************************************************)
CRLF == "\r\n"
NameAttr == "; name=\""
Quote == "\""

\* str.split(sep) for a separator of one token
RECURSIVE SplitAt(_, _, _, _)
SplitAt(s, sep, i, cur) ==
    IF i > Len(s) THEN <<cur>>
    ELSE IF s[i] = sep THEN <<cur>> \o SplitAt(s, sep, i + 1, <<>>)
    ELSE SplitAt(s, sep, i + 1, Append(cur, s[i]))

Split(s, sep) == SplitAt(s, sep, 1, <<>>)

\* str.split('\r\n\r\n'): the occurrences are found left to right and do not overlap
RECURSIVE SplitBlankAt(_, _, _)
SplitBlankAt(s, i, cur) ==
    IF i > Len(s) THEN <<cur>>
    ELSE IF i < Len(s) /\ s[i] = CRLF /\ s[i + 1] = CRLF
    THEN <<cur>> \o SplitBlankAt(s, i + 2, <<>>)
    ELSE SplitBlankAt(s, i + 1, Append(cur, s[i]))

SplitBlank(s) == SplitBlankAt(s, 1, <<>>)

\* str.strip(): the only whitespace among the tokens is "\r\n"
RECURSIVE LStrip(_)
LStrip(s) == IF s # <<>> /\ Head(s) = CRLF THEN LStrip(Tail(s)) ELSE s

RECURSIVE RStrip(_)
RStrip(s) ==
    IF s # <<>> /\ s[Len(s)] = CRLF THEN RStrip(SubSeq(s, 1, Len(s) - 1)) ELSE s

Strip(s) == RStrip(LStrip(s))

\* line 33: the stripped parts that are neither empty nor '--'
KeptParts(text, boundary) ==
    LET parts == Split(text, "--" \o boundary)
        stripped == [i \in 1..Len(parts) |-> Strip(parts[i])]
    IN  SelectSeq(stripped, LAMBDA part : part # <<>> /\ part # <<"--">>)

\* lines 37-44, one part: the key is what follows the first '; name="' of the
\* headers block, up to the next one, less its last character; the value is
\* the second segment when the part has exactly two, None otherwise
ParsePart(part) ==
    LET segs == SplitBlank(part)
        names == Split(segs[1], NameAttr)
    IN  IF Len(names) < 2 THEN Raise("IndexError")
        ELSE Ok([key |-> SubSeq(names[2], 1, Len(names[2]) - 1),
                 value |-> IF Len(segs) = 2 THEN Str(segs[2]) ELSE Null])

\* parse_multipart(data, boundary); data.split raises AttributeError on None
parse_multipart(d, boundary) ==
    IF d.t # "str" THEN Raise("AttributeError")
    ELSE LET parts == KeptParts(d.s, boundary)
             parsed == [i \in 1..Len(parts) |-> ParsePart(parts[i])]
         IN  IF \E i \in 1..Len(parts) : ~parsed[i].ok
             THEN Raise("IndexError")
             ELSE Ok([i \in 1..Len(parts) |-> parsed[i].val])

(***************************************************************************)
(* convert_headers, lines 49-52.                                           *)
(***************************************************************************)
\* str.lower() on the header names of the model
Lower(name) ==
    CASE name = "Accept" -> "accept"
      [] name = "HOST" -> "host"
      [] name = "Cookie" -> "cookie"
      [] name = "COOKIE" -> "cookie"
      [] name = "Content-Type" -> "content-type"
      [] name = "X-Id" -> "x-id"
      [] OTHER -> name

\* standard_headers, line 50
standard_headers ==
    <<"host", "content-length", "content-type", "user-agent", "accept", "connection">>

\* the single-key dict {name: value}
Item(name, value) == [name |-> name, value |-> value]

\* an integer standing in a headers or cookies list
Ref(id) == [ref |-> id]

IsRef(x) == DOMAIN x = {"ref"}

\* a plausible slip: the standard headers are compared without lower()
convert_headers_case_sensitive(headers, exclude_standard_headers) ==
    LET keep(h) == /\ Lower(h.name) # "cookie"
                   /\ \/ ~exclude_standard_headers
                      \/ \A i \in 1..Len(standard_headers) : h.name # standard_headers[i]
        kept == SelectSeq(headers, keep)
    IN  [i \in 1..Len(kept) |-> Item(kept[i].name, kept[i].value)]

convert_headers(headers, exclude_standard_headers) ==
    LET keep(h) == /\ Lower(h.name) # "cookie"
                   /\ \/ ~exclude_standard_headers
                      \/ \A i \in 1..Len(standard_headers) :
                            Lower(h.name) # standard_headers[i]
        kept == SelectSeq(headers, keep)
    IN  [i \in 1..Len(kept) |-> Item(kept[i].name, kept[i].value)]

(***************************************************************************)
(* filter_entries, lines 55-112, one entry of the loop at a time.          *)
(***************************************************************************)
\* lines 75-84 for one side: the cookies rewritten as {name: value}, or the
\* key deleted; del raises KeyError when the side has no cookies key
FilterCookies(fe, source, side, exclude_cookies) ==
    IF "cookies" \in DOMAIN source /\ ~exclude_cookies
    THEN Ok(Put(fe, side, Put(fe[side], "cookies",
                [i \in 1..Len(source.cookies) |->
                    Item(source.cookies[i].name, source.cookies[i].value)])))
    ELSE IF "cookies" \in DOMAIN fe[side]
    THEN Ok(Put(fe, side, Without(fe[side], {"cookies"})))
    ELSE Raise("KeyError")

\* 'multipart' in mimeType, on the MIME types of the model
IsMultipart(mimeType) == mimeType = "multipart/form-data"

\* value.split('boundary='), on the Content-Type values of the model
SplitBoundary(value) ==
    IF value = "multipart/form-data; boundary=XYZ"
    THEN <<"multipart/form-data; ", "XYZ">>
    ELSE <<value>>

\* lines 86-94: the multipart body parsed with the boundary of the source
\* request's first Content-Type header, any other body decoded
FilterPostData(fe, request) ==
    IF "postData" \notin DOMAIN request THEN Ok(fe)
    ELSE LET postData == request.postData
             text == Get(postData, "text", Str(<<>>))
             set(r) == IF r.ok
                       THEN Ok(Put(fe, "request", Put(fe.request, "postData", r.val)))
                       ELSE r
         IN  IF "mimeType" \in DOMAIN postData /\ IsMultipart(postData.mimeType)
             THEN IF "headers" \notin DOMAIN request THEN Raise("KeyError")
                  ELSE LET boundary_header ==
                               SelectSeq(request.headers,
                                         LAMBDA h : Lower(h.name) = "content-type")
                       IN  IF boundary_header = <<>> THEN Raise("IndexError")
                           ELSE LET pieces == SplitBoundary(boundary_header[1].value)
                                IN  IF Len(pieces) < 2 THEN Raise("IndexError")
                                    ELSE set(parse_multipart(text, pieces[2]))
             ELSE set(decode_data(text))

\* lines 96-98: every query parameter as {name: unquote(value)}
FilterQueryString(fe, request) ==
    IF "queryString" \notin DOMAIN request THEN Ok(fe)
    ELSE Ok(Put(fe, "request", Put(fe.request, "queryString",
                [i \in 1..Len(request.queryString) |->
                    Item(request.queryString[i].name,
                         unquote(request.queryString[i].value))])))

\* lines 100-103
FilterHeaders(fe, source, side, exclude_standard_headers) ==
    IF "headers" \notin DOMAIN source THEN Ok(fe)
    ELSE Ok(Put(fe, side, Put(fe[side], "headers",
                convert_headers(source.headers, exclude_standard_headers))))

\* lines 105-108
FilterContent(fe, response) ==
    IF "content" \notin DOMAIN response THEN Ok(fe)
    ELSE LET r == decode_data(Get(response.content, "text", Str(<<>>)))
         IN  IF r.ok THEN Ok(Put(fe, "response", Put(fe.response, "content", r.val)))
             ELSE r

\* lines 63-66: the entry is skipped
Skipped(entry, exclude_static) ==
    exclude_static /\ IsStatic(entry.request.url)

\* lines 68-108 for a kept entry: Ok(filtered_entry), or the exception raised
FilterEntry(entry, exclude_cookies, exclude_standard_headers) ==
    LET request == entry.request
        response == entry.response
        filtered_entry ==
            [request |-> Without(request, {"bodySize", "headersSize", "httpVersion"}),
             response |-> Without(response, {"bodySize", "headersSize", "statusText",
                                             "httpVersion"}),
             comment |-> Get(entry, "comment", "")]
        \* r, then f on its value unless r raised
        Then(r, f(_)) == IF r.ok THEN f(r.val) ELSE r
        s1 == FilterCookies(filtered_entry, request, "request", exclude_cookies)
        s2 == Then(s1, LAMBDA fe : FilterCookies(fe, response, "response", exclude_cookies))
        s3 == Then(s2, LAMBDA fe : FilterPostData(fe, request))
        s4 == Then(s3, LAMBDA fe : FilterQueryString(fe, request))
        s5 == Then(s4, LAMBDA fe : FilterHeaders(fe, request, "request",
                                                 exclude_standard_headers))
        s6 == Then(s5, LAMBDA fe : FilterHeaders(fe, response, "response",
                                                 exclude_standard_headers))
    IN  Then(s6, LAMBDA fe : FilterContent(fe, response))

\* the loop of lines 59-110 from entry i on: acc holds filtered_entries so far,
\* as [key, value] records in insertion order, key the 0-based input index
RECURSIVE FilterFrom(_, _, _, _, _, _)
FilterFrom(ents, i, acc, exclude_static, exclude_cookies, exclude_standard_headers) ==
    IF i > Len(ents) THEN Ok(acc)
    ELSE LET entry == ents[i]
         IN  IF "request" \notin DOMAIN entry \/ "response" \notin DOMAIN entry
             THEN Raise("KeyError")
             ELSE IF exclude_static /\ "url" \notin DOMAIN entry.request
             THEN Raise("KeyError")
             ELSE IF Skipped(entry, exclude_static)
             THEN FilterFrom(ents, i + 1, acc, exclude_static, exclude_cookies,
                             exclude_standard_headers)
             ELSE LET r == FilterEntry(entry, exclude_cookies, exclude_standard_headers)
                  IN  IF ~r.ok THEN r
                      ELSE FilterFrom(ents, i + 1,
                                      Append(acc, [key |-> i - 1, value |-> r.val]),
                                      exclude_static, exclude_cookies,
                                      exclude_standard_headers)

filter_entries(ents, exclude_static, exclude_cookies, exclude_standard_headers) ==
    FilterFrom(ents, 1, <<>>, exclude_static, exclude_cookies, exclude_standard_headers)

(***************************************************************************)
(* create_dict, lines 115-133.                                             *)
(***************************************************************************)
RECURSIVE Concat(_)
Concat(ss) == IF ss = <<>> THEN <<>> ELSE Head(ss) \o Concat(Tail(ss))

\* lines 117-125: the identifier (name, value) of every item counted, entry by entry, the request side before
\* the response side; none when the key is 'cookies' and cookies are excluded
CountedItems(fentries, key, exclude_cookies) ==
    IF key = "cookies" /\ exclude_cookies THEN <<>>
    ELSE LET items == Concat([i \in 1..Len(fentries) |->
                          Get(fentries[i].value.request, key, <<>>)
                              \o Get(fentries[i].value.response, key, <<>>)])
         IN  [i \in 1..Len(items) |-> <<items[i].name, items[i].value>>]

\* Counter: the distinct identifiers in the order they were first counted
RECURSIVE FirstSeen(_, _)
FirstSeen(items, acc) ==
    IF items = <<>> THEN acc
    ELSE FirstSeen(Tail(items),
                   IF \E i \in 1..Len(acc) : acc[i] = Head(items)
                   THEN acc ELSE Append(acc, Head(items)))

\* counter[identifier]
Count(items, x) == Cardinality({i \in 1..Len(items) : items[i] = x})

\* a plausible slip: the threshold written v >= 2
create_dict_ge2(fentries, key, exclude_cookies) ==
    LET items == CountedItems(fentries, key, exclude_cookies)
        frequent_items == SelectSeq(FirstSeen(items, <<>>), LAMBDA x : Count(items, x) >= 2)
    IN  [index \in 0..(Len(frequent_items) - 1) |->
            Item(frequent_items[index + 1][1], frequent_items[index + 1][2])]

\* a plausible slip: enumerate(frequent_items, 1)
create_dict_from_one(fentries, key, exclude_cookies) ==
    LET items == CountedItems(fentries, key, exclude_cookies)
        frequent_items == SelectSeq(FirstSeen(items, <<>>), LAMBDA x : Count(items, x) > 2)
    IN  [index \in 1..Len(frequent_items) |->
            Item(frequent_items[index][1], frequent_items[index][2])]

\* create_dict(entries, key, exclude_cookies): the dict index -> {name: value}
\* of the identifiers counted more than twice, numbered from 0 in counter order
create_dict(fentries, key, exclude_cookies) ==
    LET items == CountedItems(fentries, key, exclude_cookies)
        frequent_items == SelectSeq(FirstSeen(items, <<>>), LAMBDA x : Count(items, x) > 2)
    IN  [index \in 0..(Len(frequent_items) - 1) |->
            Item(frequent_items[index + 1][1], frequent_items[index + 1][2])]

(***************************************************************************)
(* replace_items_with_references, lines 136-151.                           *)
(***************************************************************************)
\* a plausible slip: the items are matched by name alone
JsonDumpsNameOnly(item) == <<"{", item.name, "}">>

\* json.dumps of a single-key dict of strings
JsonDumps(item) == <<"{", item.name, ": ", item.value, "}">>

\* line 137: item_to_index[item_string]; of two keys with the same string the
\* later one stays
ItemToIndex(item_dict, item_string) ==
    LET ks == {k \in DOMAIN item_dict : JsonDumps(item_dict[k]) = item_string}
    IN  IF ks = {} THEN -1 ELSE CHOOSE k \in ks : \A j \in ks : j <= k

\* a plausible slip: the reference is the position in the table counted from 1
ReplaceItemsOffByOne(items, item_dict) ==
    [i \in 1..Len(items) |->
        LET k == ItemToIndex(item_dict, JsonDumps(items[i]))
        IN  IF k >= 0 THEN Ref(k + 1) ELSE items[i]]

\* lines 143-148 for one list
ReplaceItems(items, item_dict) ==
    [i \in 1..Len(items) |->
        LET k == ItemToIndex(item_dict, JsonDumps(items[i]))
        IN  IF k >= 0 THEN Ref(k) ELSE items[i]]

\* lines 139-149 for one entry: both sides get the key, an absent list as []
ReplaceInEntry(entry, item_dict, key) ==
    LET side(sd) == Put(entry[sd], key, ReplaceItems(Get(entry[sd], key, <<>>), item_dict))
    IN  Put(Put(entry, "request", side("request")), "response", side("response"))

replace_items_with_references(fentries, item_dict, key) ==
    [i \in 1..Len(fentries) |->
        [key |-> fentries[i].key, value |-> ReplaceInEntry(fentries[i].value, item_dict, key)]]

(***************************************************************************)
(* get_requests_str_for_prompt, lines 205-215: one line per entry with its *)
(* ordinal, comment, method and URL; a missing method or url is KeyError.  *)
(***************************************************************************)
get_requests_str_for_prompt(d) ==
    LET es == d.entries
    IN  IF \E i \in 1..Len(es) : {"method", "url"} \ DOMAIN es[i].value.request # {}
        THEN Raise("KeyError")
        ELSE Ok([i \in 1..Len(es) |->
                    [key |-> es[i].key,
                     comment |-> es[i].value.comment,
                     method |-> es[i].value.request.method,
                     url |-> es[i].value.request.url]])

\* lines 290-294 and 300-304: the extension is appended unless the path has it;
\* endswith on an absent --output (None) is AttributeError
FileName(output, format) ==
    LET ext == IF format = "json" THEN ".json" ELSE ".yaml"
    IN  IF output.t # "str" THEN Raise("AttributeError")
        ELSE IF EndsWith(output.s, <<ext>>) THEN Ok(output.s)
        ELSE Ok(Append(output.s, ext))

(***************************************************************************)
(* The run of main(), lines 271-307, one action per call in program order. *)
(* A call that raises ends the run at pc = "failed".                       *)
(***************************************************************************)
\* the run goes on to step next with the variables as the action set them
Done(step, next) ==
    /\ pc' = next
    /\ trace' = Append(trace, step)
    /\ exc' = ""

\* the run ends with exception e, every other variable as it was
Fail(e, others) ==
    /\ pc' = "failed"
    /\ exc' = e
    /\ trace' = trace
    /\ UNCHANGED others

\* lines 176-177: load_har_file and har_data['log']['entries']
Load ==
    /\ pc = "load"
    /\ LET rest == <<filtered_entries, header_dict, cookie_dict, data, http_str,
                     stdout, out_file, fin, fout, har>>
       IN  IF ~har.valid_json
           THEN Fail("JSONDecodeError", <<entries, rest>>)
           ELSE IF "log" \notin DOMAIN har.doc \/ "entries" \notin DOMAIN har.doc.log
           THEN Fail("KeyError", <<entries, rest>>)
           ELSE /\ entries' = har.doc.log.entries
                /\ Done("load", "filter")
                /\ UNCHANGED rest

\* lines 179-180
Filter ==
    /\ pc = "filter"
    /\ LET r == filter_entries(entries, har.exclude_static, har.exclude_cookies,
                               har.exclude_standard_headers)
           rest == <<entries, header_dict, cookie_dict, data, http_str, stdout,
                     out_file, fin, fout, har>>
       IN  IF ~r.ok
           THEN Fail(r.exc, <<filtered_entries, rest>>)
           ELSE /\ filtered_entries' = r.val
                /\ Done("filter", "header_dict")
                /\ UNCHANGED rest

\* line 182
CreateHeaderDict ==
    /\ pc = "header_dict"
    /\ header_dict' = create_dict(filtered_entries, "headers", FALSE)
    /\ Done("header_dict", "cookie_dict")
    /\ UNCHANGED <<entries, filtered_entries, cookie_dict, data, http_str, stdout,
                   out_file, fin, fout, har>>

\* line 183
CreateCookieDict ==
    /\ pc = "cookie_dict"
    /\ cookie_dict' = create_dict(filtered_entries, "cookies", har.exclude_cookies)
    /\ Done("cookie_dict", "replace_headers")
    /\ UNCHANGED <<entries, filtered_entries, header_dict, data, http_str, stdout,
                   out_file, fin, fout, har>>

\* line 185
ReplaceHeaders ==
    /\ pc = "replace_headers"
    /\ filtered_entries' =
           replace_items_with_references(filtered_entries, header_dict, "headers")
    /\ Done("replace_headers", "replace_cookies")
    /\ UNCHANGED <<entries, header_dict, cookie_dict, data, http_str, stdout,
                   out_file, fin, fout, har>>

\* lines 187-188
ReplaceCookies ==
    /\ pc = "replace_cookies"
    /\ filtered_entries' =
           IF ~har.exclude_cookies
           THEN replace_items_with_references(filtered_entries, cookie_dict, "cookies")
           ELSE filtered_entries
    /\ Done("replace_cookies", "renumber")
    /\ UNCHANGED <<entries, header_dict, cookie_dict, data, http_str, stdout,
                   out_file, fin, fout, har>>

\* a plausible slip: the original index kept as the key, counted from 1
sorted_entries_keeping_index(minimized_entries) ==
    [i \in 1..Len(minimized_entries) |->
        [key |-> minimized_entries[i].key + 1, value |-> minimized_entries[i].value]]

\* lines 190-193: enumerate(minimized_entries, 1)
sorted_entries(minimized_entries) ==
    [i \in 1..Len(minimized_entries) |->
        [key |-> i, value |-> minimized_entries[i].value]]

\* lines 190-202: the entries renumbered, and the returned dict
Renumber ==
    /\ pc = "renumber"
    /\ data' = IF ~har.exclude_cookies
               THEN [entries |-> sorted_entries(filtered_entries),
                     header_dict |-> header_dict,
                     cookie_dict |-> cookie_dict]
               ELSE [entries |-> sorted_entries(filtered_entries),
                     header_dict |-> header_dict]
    /\ Done("renumber", "requests_str")
    /\ UNCHANGED <<entries, filtered_entries, header_dict, cookie_dict, http_str,
                   stdout, out_file, fin, fout, har>>

\* line 285
RequestsStr ==
    /\ pc = "requests_str"
    /\ LET r == get_requests_str_for_prompt(data)
           rest == <<entries, filtered_entries, header_dict, cookie_dict, data,
                     stdout, out_file, fin, fout, har>>
       IN  IF ~r.ok
           THEN Fail(r.exc, <<http_str, rest>>)
           ELSE /\ http_str' = r.val
                /\ Done("requests_str", "count_tokens")
                /\ UNCHANGED rest

\* lines 286-288: both renderings are tokenized and the totals printed
CountTokens ==
    /\ pc = "count_tokens"
    /\ stdout' = Append(stdout, [line |-> "Total tokens"])
    /\ Done("count_tokens", "print_prompt")
    /\ UNCHANGED <<entries, filtered_entries, header_dict, cookie_dict, data, http_str,
                   out_file, fin, fout, har>>

\* lines 290-298 and 300-306: the file name, then print_prompt
PrintPrompt ==
    /\ pc = "print_prompt"
    /\ LET r == FileName(har.output, har.format)
           rest == <<entries, filtered_entries, header_dict, cookie_dict, data,
                     http_str, out_file, fin, fout, har>>
       IN  IF ~r.ok
           THEN Fail(r.exc, <<stdout, rest>>)
           ELSE /\ stdout' = Append(stdout, [line |-> "prompt", file_name |-> r.val,
                                             format_name |-> har.format,
                                             http_str |-> http_str])
                /\ Done("print_prompt", "save")
                /\ UNCHANGED rest

\* a plausible slip: the output file is opened for writing as soon as its name
\* is known, before the transform has run
SaveOpeningEarly ==
    \/ /\ pc = "filter"
       /\ ~out_file.exists
       /\ out_file' = [exists |-> TRUE, name |-> <<>>, format |-> har.format,
                       content |-> <<>>]
       /\ UNCHANGED <<pc, trace, exc, entries, filtered_entries, header_dict,
                      cookie_dict, data, http_str, stdout, fin, fout, har>>
    \/ /\ pc = "save"
       /\ out_file' = [exists |-> TRUE, name |-> FileName(har.output, har.format).val,
                       format |-> har.format, content |-> data]
       /\ Done("save", "done")
       /\ UNCHANGED <<entries, filtered_entries, header_dict, cookie_dict, data,
                      http_str, stdout, fin, fout, har>>

\* lines 299 and 307: save_json_file or save_yaml_file opens the file and writes
Save ==
    /\ pc = "save"
    /\ out_file' = [exists |-> TRUE, name |-> FileName(har.output, har.format).val,
                    format |-> har.format, content |-> data]
    /\ Done("save", "done")
    /\ UNCHANGED <<entries, filtered_entries, header_dict, cookie_dict, data, http_str,
                   stdout, fin, fout, har>>

Next ==
    \/ Load
    \/ Filter
    \/ CreateHeaderDict
    \/ CreateCookieDict
    \/ ReplaceHeaders
    \/ ReplaceCookies
    \/ Renumber
    \/ RequestsStr
    \/ CountTokens
    \/ PrintPrompt
    \/ Save

(***************************************************************************)
(* The inputs: HAR documents built from a few headers, cookies, URLs and   *)
(* bodies, under every combination of the three flags.                     *)
(***************************************************************************)
Accept == [name |-> "Accept", value |-> "application/json"]
XId == [name |-> "X-Id", value |-> "1"]
XId2 == [name |-> "X-Id", value |-> "2"]
Host == [name |-> "HOST", value |-> "x.com"]
CookieHdr == [name |-> "Cookie", value |-> "sid=1"]
CookieHdrUpper == [name |-> "COOKIE", value |-> "sid=1"]
ContentTypeXYZ == [name |-> "Content-Type", value |-> "multipart/form-data; boundary=XYZ"]
ContentTypeBare == [name |-> "Content-Type", value |-> "multipart/form-data"]
Sid == [name |-> "sid", value |-> "1"]
Sid2 == [name |-> "sid", value |-> "2"]

PlainUrl == <<"a">>
Urls ==
    << <<"a">>,
       <<"a", ".", "j", "s">>,
       <<"a", ".", "j", "s", "?", "v">>,
       <<"a", ".", "j", "s", "#", "f">>,
       <<"a", ".", "j", "s", "#">>,
       <<"a", "?", ".", "j", "s">>,
       <<"a", "#", ".", "j", "s">>,
       <<"a", ".", "j", "s", "o", "n">> >>

\* a request and a response with the fields of a HAR entry
Request(url, headers, cookies) ==
    [method |-> "GET", url |-> url, httpVersion |-> "HTTP/1.1", headers |-> headers,
     cookies |-> cookies, queryString |-> <<[name |-> "q", value |-> <<37, 50, 48>>]>>,
     headersSize |-> 100, bodySize |-> 0]

Response(headers, cookies) ==
    [status |-> 200, statusText |-> "OK", httpVersion |-> "HTTP/1.1",
     headers |-> headers, cookies |-> cookies, redirectURL |-> "",
     content |-> [mimeType |-> "text/plain", text |-> Str(<<>>)],
     headersSize |-> 100, bodySize |-> 0]

Entry(request, response) == [request |-> request, response |-> response]

\* the k-th pair (i, j) of 1..m \X 1..n, row by row
PairOf(k, n) == [i |-> (k - 1) \div n + 1, j |-> ((k - 1) % n) + 1]

\* entries that differ in their headers
ReqHeaderLists ==
    << <<>>, <<Accept>>, <<Accept, Accept>>, <<Accept, XId>>, <<XId2, XId>>,
       <<XId, XId>>, <<CookieHdr, Accept>>, <<Host, CookieHdrUpper, XId>> >>

RespHeaderLists == << <<>>, <<Accept>> >>

HeaderEntries ==
    [k \in 1..(Len(ReqHeaderLists) * Len(RespHeaderLists)) |->
        LET p == PairOf(k, Len(RespHeaderLists))
        IN  Entry(Request(PlainUrl, ReqHeaderLists[p.i], <<>>),
                  Response(RespHeaderLists[p.j], <<>>))]

\* entries that differ in their cookies, present or not
NoCookies == [absent |-> TRUE, list |-> <<>>]
Cookies(cs) == [absent |-> FALSE, list |-> cs]

ReqCookieLists ==
    << NoCookies, Cookies(<<>>), Cookies(<<Sid>>), Cookies(<<Sid, Sid>>),
       Cookies(<<Sid2, Sid>>) >>

RespCookieLists == << NoCookies, Cookies(<<Sid>>) >>

WithCookies(d, c) ==
    IF c.absent THEN Without(d, {"cookies"}) ELSE Put(d, "cookies", c.list)

CookieEntries ==
    [k \in 1..(Len(ReqCookieLists) * Len(RespCookieLists)) |->
        LET p == PairOf(k, Len(RespCookieLists))
        IN  Entry(WithCookies(Request(PlainUrl, <<Accept>>, <<>>), ReqCookieLists[p.i]),
                  WithCookies(Response(<<>>, <<>>), RespCookieLists[p.j]))]

\* entries that differ in their URL, present or not
UrlEntries ==
    [k \in 1..(Len(Urls) + 1) |->
        IF k <= Len(Urls)
        THEN Entry(Request(Urls[k], <<Accept, XId, Accept, XId, Accept>>, <<Sid, Sid>>),
                   Response(<<>>, <<>>))
        ELSE Entry(Without(Request(PlainUrl, <<Accept>>, <<>>), {"url"}),
                   Response(<<>>, <<>>))]

\* the kinds of entries a document is made of
Families == <<HeaderEntries, CookieEntries, UrlEntries>>

Har(doc, exclude_static, exclude_cookies, exclude_standard_headers) ==
    [valid_json |-> TRUE, doc |-> doc, exclude_static |-> exclude_static,
     exclude_cookies |-> exclude_cookies,
     exclude_standard_headers |-> exclude_standard_headers,
     format |-> "json", output |-> Str(<<"out">>)]

Doc(es) == [log |-> [version |-> "1.2", entries |-> es]]

\* entries that differ in their bodies: the request's postData with the
\* headers it is read with, and the response's content
HelloB64 == <<97, 71, 86, 115, 98, 71, 56, 61>>   \* aGVsbG8=
Escaped == <<97, 37, 50, 48, 98>>                 \* a%20b

Part(name, body) == <<NameAttr, name, Quote, CRLF, CRLF>> \o body \o <<CRLF>>

TwoParts ==
    <<"--XYZ", CRLF>> \o Part("field1", <<"v">>) \o <<"--XYZ", CRLF>>
        \o Part("field2", <<"w">>) \o <<"--XYZ", "--", CRLF>>

BlankLineInBody ==
    <<"--XYZ", CRLF>> \o Part("field1", <<"v", CRLF, CRLF, "w">>) \o <<"--XYZ", "--">>

EmptyBody == <<"--XYZ", CRLF, NameAttr, "field1", Quote, CRLF, CRLF, "--XYZ", "--">>

Nameless == <<"--XYZ", CRLF, "v", CRLF, CRLF, "w", CRLF, "--XYZ", "--">>

Json(text) == [mimeType |-> "application/json", text |-> text]
Multipart(text) == [mimeType |-> "multipart/form-data", text |-> text]

Posts ==
    << [headers |-> <<Accept>>, postData |-> Json(Str(HelloB64))],
       [headers |-> <<Accept>>, postData |-> Json(Str(Escaped))],
       [headers |-> <<Accept>>, postData |-> Json(Null)],
       [headers |-> <<Accept>>, postData |-> [mimeType |-> "application/json"]],
       [headers |-> <<Accept>>, postData |-> [text |-> Str(HelloB64)]],
       [headers |-> <<Accept, ContentTypeXYZ>>, postData |-> Multipart(Str(TwoParts))],
       [headers |-> <<ContentTypeXYZ>>, postData |-> Multipart(Str(BlankLineInBody))],
       [headers |-> <<ContentTypeXYZ>>, postData |-> Multipart(Str(EmptyBody))],
       [headers |-> <<ContentTypeXYZ>>, postData |-> Multipart(Str(Nameless))],
       [headers |-> <<ContentTypeXYZ>>, postData |-> Multipart(Null)],
       [headers |-> <<ContentTypeBare>>, postData |-> Multipart(Str(TwoParts))],
       [headers |-> <<Accept>>, postData |-> Multipart(Str(TwoParts))] >>

Contents ==
    << [mimeType |-> "text/plain", text |-> Str(HelloB64)],
       [mimeType |-> "text/plain", text |-> Str(Escaped)],
       [mimeType |-> "text/plain", text |-> Null],
       [mimeType |-> "text/plain"] >>

BodyEntries ==
    [k \in 1..(Len(Posts) * (Len(Contents) + 1)) |->
        LET p == PairOf(k, Len(Contents) + 1)
            request == Put(Request(PlainUrl, Posts[p.i].headers, <<>>),
                           "postData", Posts[p.i].postData)
            response == Response(<<>>, <<>>)
        IN  Entry(request,
                  IF p.j <= Len(Contents) THEN Put(response, "content", Contents[p.j])
                  ELSE Without(response, {"content"}))]

\* documents that are no HAR, or lack a field the program reads
Malformed ==
    << [valid_json |-> FALSE, doc |-> <<>>],
       [valid_json |-> TRUE, doc |-> [version |-> "1.2"]],
       [valid_json |-> TRUE, doc |-> [log |-> [version |-> "1.2"]]],
       [valid_json |-> TRUE,
        doc |-> Doc(<<[response |-> Response(<<>>, <<>>)]>>)],
       [valid_json |-> TRUE,
        doc |-> Doc(<<[request |-> Request(PlainUrl, <<>>, <<>>)]>>)],
       [valid_json |-> TRUE,
        doc |-> Doc(<<Entry(Without(Request(PlainUrl, <<>>, <<>>), {"method"}),
                            Response(<<>>, <<>>))>>)],
       [valid_json |-> TRUE,
        doc |-> Doc(<<[request |-> Request(PlainUrl, <<>>, <<>>),
                       response |-> Response(<<>>, <<>>),
                       comment |-> "login"]>>)] >>

\* --format and --output
Formats == <<"json", "yaml">>
Outputs == <<Str(<<"out">>), Str(<<"out", ".json">>), Str(<<"out", ".yaml">>), Null>>

\* a document of at most MaxEntries entries of one family, under any flags;
\* --exclude-static is left off where every URL is PlainUrl, which it keeps
InitHar ==
    \E f \in 1..Len(Families), n \in 0..MaxEntries :
        \E code \in [1..n -> 1..Len(Families[f])], xc, xh \in BOOLEAN,
           xs \in IF Families[f] = UrlEntries THEN BOOLEAN ELSE {FALSE} :
            har = Har(Doc([i \in 1..n |-> Families[f][code[i]]]), xs, xc, xh)

\* a document of one entry with bodies, under any flags
InitBodies ==
    \E k \in 1..Len(BodyEntries), xs, xc, xh \in BOOLEAN :
        har = Har(Doc(<<BodyEntries[k]>>), xs, xc, xh)

\* a malformed or minimal document, under any flags, format and output path
InitMalformed ==
    \E k \in 1..Len(Malformed), xs, xc, xh \in BOOLEAN,
       f \in 1..Len(Formats), o \in 1..Len(Outputs) :
        har = [valid_json |-> Malformed[k].valid_json, doc |-> Malformed[k].doc,
               exclude_static |-> xs, exclude_cookies |-> xc,
               exclude_standard_headers |-> xh,
               format |-> Formats[f], output |-> Outputs[o]]

Init ==
    /\ (InitHar \/ InitBodies \/ InitMalformed)
    /\ pc = "load"
    /\ exc = ""
    /\ entries = <<>>
    /\ filtered_entries = <<>>
    /\ header_dict = <<>>
    /\ cookie_dict = <<>>
    /\ data = <<>>
    /\ http_str = <<>>
    /\ stdout = <<>>
    /\ out_file = [exists |-> FALSE]
    /\ trace = <<>>
    /\ fin = <<>>
    /\ fout = <<>>

Spec == Init /\ [][Next]_vars

(***************************************************************************)
(* decode_data on its own: any text of at most MaxText characters of a     *)
(* small alphabet, the sample bodies, and JSON null.                       *)
(***************************************************************************)
TextAlphabet == {97, 71, 61, 37, 50, 48, 233}   \* a G = % 2 0 e-acute

Idle ==
    /\ exc = ""
    /\ entries = <<>>
    /\ filtered_entries = <<>>
    /\ header_dict = <<>>
    /\ cookie_dict = <<>>
    /\ data = <<>>
    /\ http_str = <<>>
    /\ stdout = <<>>
    /\ out_file = [exists |-> FALSE]
    /\ trace = <<>>
    /\ har = <<>>
    /\ fout = <<>>

InitDecode ==
    /\ pc = "decode"
    /\ \/ fin \in {Null, Str(HelloB64), Str(Escaped)}
       \/ \E s \in SeqsUpTo(TextAlphabet, MaxText) : fin = Str(s)
    /\ Idle

Decode ==
    /\ pc = "decode"
    /\ pc' = "decoded"
    /\ fout' = decode_data(fin)
    /\ UNCHANGED <<har, exc, entries, filtered_entries, header_dict, cookie_dict, data,
                   http_str, stdout, out_file, trace, fin>>

NextDecode == Decode

SpecDecode == InitDecode /\ [][NextDecode]_vars

(***************************************************************************)
(* parse_multipart on its own, with boundary XYZ: any body of at most      *)
(* MaxTokens tokens, the sample bodies, and JSON null.                     *)
(***************************************************************************)
TokenAlphabet == {"--XYZ", CRLF, NameAttr, "field1", Quote, "v"}

InitMultipart ==
    /\ pc = "parse"
    /\ \/ fin \in {Null, Str(TwoParts), Str(BlankLineInBody), Str(EmptyBody), Str(Nameless)}
       \/ \E s \in SeqsUpTo(TokenAlphabet, MaxTokens) : fin = Str(s)
    /\ Idle

ParseMultipart ==
    /\ pc = "parse"
    /\ pc' = "parsed"
    /\ fout' = parse_multipart(fin, "XYZ")
    /\ UNCHANGED <<har, exc, entries, filtered_entries, header_dict, cookie_dict, data,
                   http_str, stdout, out_file, trace, fin>>

NextMultipart == ParseMultipart

SpecMultipart == InitMultipart /\ [][NextMultipart]_vars

(***************************************************************************)
(* What the properties speak of, stated from the input rather than the     *)
(* program's intermediate results.                                         *)
(***************************************************************************)
Range(f) == {f[x] : x \in DOMAIN f}

Sides == {"request", "response"}

\* process_har_file has returned
Returned == \E i \in 1..Len(trace) : trace[i] = "renumber"

\* both tables have been built
TablesBuilt == \E i \in 1..Len(trace) : trace[i] = "cookie_dict"

\* the URL, with its query string removed, ends in a static extension
EndsInStaticExtension(url) ==
    \E i \in 1..Len(static_values) : EndsWith(remove_query_params(url), static_values[i])

\* the input entries that survive the static filter, in input order
KeptInput ==
    SelectSeq(entries,
              LAMBDA e : ~(har.exclude_static /\ EndsInStaticExtension(e.request.url)))

\* the positions in the input of the entries that survive the static filter
KeptPositions ==
    SelectSeq([i \in 1..Len(entries) |-> i],
              LAMBDA i : ~(har.exclude_static
                           /\ EndsInStaticExtension(entries[i].request.url)))

\* a header the header filter removes
RemovedName(name) ==
    \/ Lower(name) = "cookie"
    \/ /\ har.exclude_standard_headers
       /\ Lower(name) \in {"host", "content-length", "content-type", "user-agent",
                           "accept", "connection"}

\* the source headers of one side that the header filter keeps, as {name: value}
WantedHeaders(source) ==
    LET kept == SelectSeq(Get(source, "headers", <<>>), LAMBDA h : ~RemovedName(h.name))
    IN  [i \in 1..Len(kept) |-> Item(kept[i].name, kept[i].value)]

\* the source cookies of one side, as {name: value}
WantedCookies(source) ==
    LET cs == Get(source, "cookies", <<>>)
    IN  [i \in 1..Len(cs) |-> Item(cs[i].name, cs[i].value)]

\* every header (cookie) pair of the kept entries, in the order of the
\* counting scan
HeaderOccurrences ==
    Concat([i \in 1..Len(KeptInput) |->
               WantedHeaders(KeptInput[i].request) \o WantedHeaders(KeptInput[i].response)])

CookieOccurrences ==
    IF har.exclude_cookies THEN <<>>
    ELSE Concat([i \in 1..Len(KeptInput) |->
                    WantedCookies(KeptInput[i].request)
                        \o WantedCookies(KeptInput[i].response)])

\* an element of an output list with its reference looked up in the table
Resolved(x, table) ==
    IF ~IsRef(x) THEN x
    ELSE IF x.ref \in DOMAIN table THEN table[x.ref]
    ELSE Item("<dangling>", "<dangling>")

ResolvedList(xs, table) == [i \in 1..Len(xs) |-> Resolved(xs[i], table)]

\* the list under key of one side of an output entry, [] when it has none
OutList(k, side, key) == Get(data.entries[k].value[side], key, <<>>)

(***************************************************************************)
(* C1.  After process_har_file has returned, every integer in a headers    *)
(* list of an output entry is a key of header_dict and, unless cookies are *)
(* excluded, every integer in a cookies list is a key of cookie_dict.      *)
(***************************************************************************)
C1_NoDanglingReference ==
    Returned =>
        \A k \in 1..Len(data.entries), side \in Sides :
            /\ \A i \in 1..Len(OutList(k, side, "headers")) :
                   LET x == OutList(k, side, "headers")[i]
                   IN  IsRef(x) => x.ref \in DOMAIN data.header_dict
            /\ ~har.exclude_cookies =>
                   \A i \in 1..Len(OutList(k, side, "cookies")) :
                       LET x == OutList(k, side, "cookies")[i]
                       IN  IsRef(x) => x.ref \in DOMAIN data.cookie_dict

\* a run that returned an entry holding a header reference and a cookie reference
C1_Witness ==
    /\ Returned
    /\ \E k \in 1..Len(data.entries) :
           /\ \E i \in 1..Len(OutList(k, "request", "headers")) :
                  IsRef(OutList(k, "request", "headers")[i])
           /\ \E i \in 1..Len(OutList(k, "request", "cookies")) :
                  IsRef(OutList(k, "request", "cookies")[i])

(***************************************************************************)
(* C2.  A pair is in the table, and each of its occurrences is an integer, *)
(* exactly when it occurs more than twice in the request and response      *)
(* lists of the kept entries after the header filter; a pair occurring     *)
(* once or twice stays inline everywhere and is in no table.  Likewise for *)
(* cookies.                                                                *)
(***************************************************************************)
ThresholdHolds(occurrences, table, key) ==
    LET frequent == {p \in Range(occurrences) : Count(occurrences, p) > 2}
        kept == KeptInput
    IN  /\ Range(table) = frequent
        /\ \A k \in 1..Len(data.entries), side \in Sides :
               LET out == OutList(k, side, key)
                   src == IF key = "headers" THEN WantedHeaders(kept[k][side])
                          ELSE WantedCookies(kept[k][side])
               IN  /\ Len(out) = Len(src)
                   /\ \A i \in 1..Len(out) : IsRef(out[i]) <=> (src[i] \in frequent)

C2_ThresholdIsMoreThanTwo ==
    Returned =>
        /\ ThresholdHolds(HeaderOccurrences, header_dict, "headers")
        /\ ~har.exclude_cookies =>
               ThresholdHolds(CookieOccurrences, cookie_dict, "cookies")

\* a run that dropped a static entry, where X-Id: 1 occurs exactly twice in the
\* kept entries (more than twice counting the dropped one) and stays inline,
\* while Accept occurs three times and is in the table
C2_Witness ==
    /\ Returned
    /\ Len(KeptInput) < Len(entries)
    /\ Count(HeaderOccurrences, Item("X-Id", "1")) = 2
    /\ Item("X-Id", "1") \notin Range(header_dict)
    /\ \E i \in 1..Len(OutList(1, "request", "headers")) :
           OutList(1, "request", "headers")[i] = Item("X-Id", "1")
    /\ Count(HeaderOccurrences, Item("Accept", "application/json")) = 3
    /\ Item("Accept", "application/json") \in Range(header_dict)

(***************************************************************************)
(* C3.  The substitution step loses nothing: looking every integer of the  *)
(* lists it wrote up in the table gives back the lists it read, element    *)
(* for element; and a pair occurring three or more times in the lists it   *)
(* read is replaced at every occurrence by one and the same integer, whose *)
(* table entry is exactly that pair.                                       *)
(***************************************************************************)
\* the lists of the entries before (fe) and after (fe2) substitution with table
Lossless(fe, fe2, table, key) ==
    LET all == Concat([k \in 1..Len(fe) |->
                          Get(fe[k].value.request, key, <<>>)
                              \o Get(fe[k].value.response, key, <<>>)])
    IN  /\ Len(fe2) = Len(fe)
        /\ \A k \in 1..Len(fe), side \in Sides :
               LET before == Get(fe[k].value[side], key, <<>>)
                   after == Get(fe2[k].value[side], key, <<>>)
               IN  /\ Len(after) = Len(before)
                   /\ ResolvedList(after, table) = before
                   /\ \A i \in 1..Len(before) :
                          Count(all, before[i]) >= 3 =>
                              /\ IsRef(after[i])
                              /\ \A k2 \in 1..Len(fe), side2 \in Sides :
                                     LET before2 == Get(fe[k2].value[side2], key, <<>>)
                                         after2 == Get(fe2[k2].value[side2], key, <<>>)
                                     IN  \A j \in 1..Len(before2) :
                                             before2[j] = before[i] => after2[j] = after[i]

C3_SubstitutionIsLossless ==
    [][/\ pc = "replace_headers" =>
              Lossless(filtered_entries, filtered_entries', header_dict, "headers")
       /\ (pc = "replace_cookies" /\ ~har.exclude_cookies) =>
              Lossless(filtered_entries, filtered_entries', cookie_dict, "cookies")]_vars

\* a run whose substitution replaced X-Id: 1 by an integer and left X-Id: 2,
\* the same name with another value, inline
C3_Witness ==
    /\ pc = "replace_cookies"
    /\ \E k \in 1..Len(filtered_entries) :
           LET hs == filtered_entries[k].value.request.headers
           IN  /\ \E i \in 1..Len(hs) :
                      IsRef(hs[i]) /\ header_dict[hs[i].ref] = Item("X-Id", "1")
               /\ \E i \in 1..Len(hs) : hs[i] = Item("X-Id", "2")

(***************************************************************************)
(* C4.  The output entries are the input entries that survive the static   *)
(* filter, in input order, under the keys 1..k without a gap; with         *)
(* exclude_static no output URL, its query string removed, ends in a       *)
(* static extension; without it every input entry is in the output.        *)
(***************************************************************************)
C4_DenseOrderedSubsequence ==
    Returned =>
        LET kept == KeptInput
            positions == KeptPositions
        IN  /\ Len(data.entries) = Len(kept)
            /\ \A i \in 1..Len(data.entries) :
                   /\ data.entries[i].key = i
                   /\ filtered_entries[i].key + 1 = positions[i]
                   /\ data.entries[i].value = filtered_entries[i].value
                   /\ Get(data.entries[i].value.request, "url", <<>>)
                          = Get(kept[i].request, "url", <<>>)
                   /\ har.exclude_static =>
                          ~EndsInStaticExtension(data.entries[i].value.request.url)
            /\ ~har.exclude_static => Len(data.entries) = Len(entries)

\* a run that dropped a.js?v and put the entry after it under key 1
C4_Witness ==
    /\ Returned
    /\ har.exclude_static
    /\ Len(entries) = 2
    /\ entries[1].request.url = <<"a", ".", "j", "s", "?", "v">>
    /\ Len(data.entries) = 1
    /\ data.entries[1].key = 1
    /\ data.entries[1].value.request.url = <<"a">>

(***************************************************************************)
(* C5.  A side that has a cookies list, cookies not being excluded, gets   *)
(* the list rewritten as {name: value} records in order; any other side,   *)
(* cookies excluded or the source side having no cookies key, has no       *)
(* cookies key in the output, and its entry is still produced.             *)
(***************************************************************************)
\* nothing but its cookies can make the entry fail
OtherwiseValid(e) ==
    /\ {"request", "response"} \subseteq DOMAIN e
    /\ {"url", "method"} \subseteq DOMAIN e.request
    /\ "postData" \notin DOMAIN e.request
    /\ Get(Get(e.response, "content", <<>>), "text", Str(<<>>)).t = "str"

C5_CookiesRewrittenOrDropped ==
    (\A i \in 1..Len(entries) : OtherwiseValid(entries[i])) =>
        /\ ~(pc = "failed" /\ trace = <<"load">>)
        /\ pc = "header_dict" =>
               /\ Len(filtered_entries) = Len(KeptInput)
               /\ \A k \in 1..Len(filtered_entries), side \in Sides :
                      LET src == KeptInput[k][side]
                          out == filtered_entries[k].value[side]
                      IN  IF "cookies" \in DOMAIN src /\ ~har.exclude_cookies
                          THEN /\ "cookies" \in DOMAIN out
                               /\ out.cookies = WantedCookies(src)
                          ELSE "cookies" \notin DOMAIN out

(***************************************************************************)
(* C6.  The headers of each side of each output entry, integers looked up  *)
(* in header_dict, are the source headers in order without the Cookie      *)
(* header (in any letter case) and, with exclude_standard_headers, without *)
(* the standard headers (in any letter case); nothing else is dropped and  *)
(* header_dict holds no removed name.                                      *)
(***************************************************************************)
C6_HeaderFilter ==
    Returned =>
        /\ LET kept == KeptInput
           IN  \A k \in 1..Len(data.entries), side \in Sides :
                   ResolvedList(OutList(k, side, "headers"), data.header_dict)
                       = WantedHeaders(kept[k][side])
        /\ \A id \in DOMAIN data.header_dict : ~RemovedName(data.header_dict[id].name)

\* a run with exclude_standard_headers whose request sent HOST, COOKIE and
\* X-Id and kept X-Id alone
C6_Witness ==
    /\ Returned
    /\ har.exclude_standard_headers
    /\ \E k \in 1..Len(data.entries) :
           /\ KeptInput[k].request.headers = <<Host, CookieHdrUpper, XId>>
           /\ ResolvedList(OutList(k, "request", "headers"), data.header_dict)
                  = <<Item("X-Id", "1")>>

(***************************************************************************)
(* C7.  parse_multipart yields one record per non-empty segment, in order, *)
(* whose value is the text after the segment's first blank line, and null  *)
(* only when nothing follows the headers block; a body that itself holds a *)
(* blank line still yields its text.                                       *)
(***************************************************************************)
\* the text after the first blank line of the part, Null when there is none
TextAfterFirstBlankLine(part) ==
    LET at == {j \in 1..(Len(part) - 1) : part[j] = CRLF /\ part[j + 1] = CRLF}
        first == CHOOSE j \in at : \A j2 \in at : j <= j2
    IN  IF at = {} \/ first + 2 > Len(part) THEN Null
        ELSE Str(SubSeq(part, first + 2, Len(part)))

C7_ValueFollowsFirstBlankLine ==
    (pc = "parsed" /\ fin.t = "str" /\ fout.ok) =>
        LET parts == KeptParts(fin.s, "XYZ")
        IN  /\ Len(fout.val) = Len(parts)
            /\ \A i \in 1..Len(parts) :
                   fout.val[i].value = TextAfterFirstBlankLine(parts[i])

(***************************************************************************)
(* C8.  decode_data never fails: it returns the UTF-8 text of the base64   *)
(* decoded bytes when both decodings succeed, the URL-unescaped text       *)
(* otherwise, for every text including an empty, absent or null one.       *)
(***************************************************************************)
C8_DecodeNeverFails ==
    pc = "decoded" =>
        /\ fout.ok
        /\ fin.t = "str" =>
               LET raw == B64Decode(fin.s)
                   txt == IF raw.ok THEN Utf8Decode(raw.val, 1, TRUE, <<>>) ELSE raw
               IN  fout.val = IF txt.ok THEN Str(txt.val) ELSE Str(unquote(fin.s))

(***************************************************************************)
(* C9.  The keys of each table are 0..n-1, n the number of distinct pairs  *)
(* occurring more than twice; distinct pairs have distinct IDs, each entry *)
(* is one {name: value}, and the IDs follow the order in which the pairs   *)
(* are first met (entries in output order, request before response).       *)
(* cookie_dict is numbered on its own from 0.  When Accept:                *)
(* application/json occurs three times and nothing else repeats,           *)
(* header_dict is {0: {Accept: application/json}} and all three            *)
(* occurrences are 0.                                                      *)
(***************************************************************************)
DenseFirstSeen(table, occurrences) ==
    LET frequent == {p \in Range(occurrences) : Count(occurrences, p) > 2}
    IN  /\ DOMAIN table = 0..(Cardinality(frequent) - 1)
        /\ Range(table) = frequent
        /\ \A i, j \in DOMAIN table :
               i < j => /\ table[i] # table[j]
                        /\ Find(occurrences, table[i], 1) < Find(occurrences, table[j], 1)

OnlyAcceptThrice(occurrences) ==
    /\ Count(occurrences, Item("Accept", "application/json")) = 3
    /\ \A p \in Range(occurrences) :
           p # Item("Accept", "application/json") => Count(occurrences, p) = 1

C9_IdsDenseInFirstSeenOrder ==
    TablesBuilt =>
        LET occurrences == HeaderOccurrences
            kept == KeptInput
        IN  /\ DenseFirstSeen(header_dict, occurrences)
            /\ DenseFirstSeen(cookie_dict, CookieOccurrences)
            /\ OnlyAcceptThrice(occurrences) =>
                   /\ header_dict = [id \in {0} |-> Item("Accept", "application/json")]
                   /\ Returned =>
                          \A k \in 1..Len(data.entries), side \in Sides :
                              LET src == WantedHeaders(kept[k][side])
                              IN  \A i \in 1..Len(OutList(k, side, "headers")) :
                                      src[i] = Item("Accept", "application/json")
                                          => OutList(k, side, "headers")[i] = Ref(0)

\* a run with two frequent pairs: X-Id: 1, met first, has ID 0 and Accept ID 1
C9_Witness ==
    /\ Returned
    /\ DOMAIN header_dict = {0, 1}
    /\ header_dict[0] = Item("X-Id", "1")
    /\ header_dict[1] = Item("Accept", "application/json")
    /\ Find(HeaderOccurrences, Item("X-Id", "1"), 1)
           < Find(HeaderOccurrences, Item("Accept", "application/json"), 1)

(***************************************************************************)
(* C10.  The steps run in the order load, filter, header table, cookie     *)
(* table, substitution, renumbering, request list, token count, prompt,    *)
(* file; the file exists only once every earlier step is done, the prompt  *)
(* is printed only after the token count, and a run that failed has        *)
(* written no file and printed no prompt (nothing at all when the          *)
(* transform failed).                                                      *)
(***************************************************************************)
StepOrder ==
    <<"load", "filter", "header_dict", "cookie_dict", "replace_headers",
      "replace_cookies", "renumber", "requests_str", "count_tokens", "print_prompt",
      "save">>

PromptPrinted == \E i \in 1..Len(stdout) : stdout[i].line = "prompt"

C10_OrderAndNoOutputOnFailure ==
    /\ Len(trace) <= Len(StepOrder)
    /\ trace = SubSeq(StepOrder, 1, Len(trace))
    /\ out_file.exists => trace = StepOrder
    /\ PromptPrinted => Len(trace) >= Len(StepOrder) - 1
    /\ pc = "failed" => /\ ~out_file.exists
                        /\ ~PromptPrinted
                        /\ ~Returned => stdout = <<>>

\* a run ended by the IndexError of a multipart body without a boundary,
\* nothing printed and no file written
C10_Witness ==
    /\ pc = "failed"
    /\ exc = "IndexError"
    /\ trace = <<"load">>
    /\ IsMultipart(entries[1].request.postData.mimeType)
    /\ stdout = <<>>
    /\ ~out_file.exists

=============================================================================
